---- MODULE Spec2Model ----
(***************************************************************************)
(* Model of the FamilyWallet contract (family_wallet/src/lib.rs).          *)
(*                                                                         *)
(* The contract keeps three slots in instance storage (OWNER, MEMBERS,     *)
(* ADDRS), publishes events and renews the instance TTL.  Every entry      *)
(* point runs as one atomic invocation: a panic discards the invocation's  *)
(* writes, so a panicking call changes nothing but the recorded outcome.   *)
(*                                                                         *)
(* An Option<T> is modelled as a sequence of length at most one:           *)
(* <<>> is None and <<v>> is Some(v).  A Map<Address, FamilyMember> is a   *)
(* function whose domain is the set of keys.                               *)
(***************************************************************************)
EXTENDS Integers, Sequences, FiniteSets, TLC

\* ---------------------------------------------------------------- bounds
NumAddrs == 2          \* number of distinct Address values
MaxLimit == 2          \* largest i128 value drawn as an input
MaxEvents == 3         \* length at which the event log stops growing

\* ------------------------------------------------------------- constants
INSTANCE_LIFETIME_THRESHOLD == 17280
INSTANCE_BUMP_AMOUNT == 518400

\* ---------------------------------------------------------- input domains
Addresses == 1..NumAddrs
MinLimit == 0 - 1
I128 == MinLimit..MaxLimit
\* (name, role) pairs passed to add_member: two valid pairs and the empty strings
Labels == {<<"Alice", "parent">>, <<"Bob", "child">>, <<"", "">>}

\* ------------------------------------------------------------------ state
VARIABLES
    OWNER,      \* instance slot "OWNER":   Option<Address>
    MEMBERS,    \* instance slot "MEMBERS": Option<Map<Address, FamilyMember>>
    ADDRS,      \* instance slot "ADDRS":   Option<Vec<Address>>
    events,     \* the events published so far, oldest first
    ttl,        \* remaining lifetime of the instance storage, in ledgers
    last,       \* the last invocation: entry point, panic message, return value
    first_adds  \* history: addresses in the order of their first successful add_member

vars == <<OWNER, MEMBERS, ADDRS, events, ttl, last, first_adds>>

\* ------------------------------------------------------------------ types
\* variant: the two string fields are filled in the wrong order
FamilyMember_swapped(address, name, spending_limit, role) ==
    [address |-> address, name |-> role,
     spending_limit |-> spending_limit, role |-> name]

FamilyMember(address, name, spending_limit, role) ==
    [address |-> address, name |-> name,
     spending_limit |-> spending_limit, role |-> role]

MemberAdded == "MemberAdded"
MemberUpdated == "MemberUpdated"
SpendingLimitUpdated == "SpendingLimitUpdated"
FamilyWalletEvent == {MemberAdded, MemberUpdated, SpendingLimitUpdated}

\* ------------------------------------------------------- failure messages
\* owner.require_auth() traps in the host when the address did not authorize
AuthError == "require_auth failed"
AlreadyInitializedMsg == "Wallet already initialized"
NotInitializedMsg == "Wallet not initialized"
OnlyOwnerAddMsg == "Only the owner can add members"
OnlyOwnerUpdateMsg == "Only the owner can update spending limits"
NotPositiveMsg == "Spending limit must be positive"

\* --------------------------------------------------- soroban collections
MapNew == [a \in {} |-> a]
VecNew == <<>>
MapContainsKey(m, k) == k \in DOMAIN m
MapGet(m, k) == IF k \in DOMAIN m THEN <<m[k]>> ELSE <<>>
MapSet(m, k, v) == [x \in (DOMAIN m) \cup {k} |-> IF x = k THEN v ELSE m[x]]
PushBack(v, x) == Append(v, x)
UnwrapOr(opt, default) == IF opt = <<>> THEN default ELSE opt[1]
Range(s) == {s[i] : i \in DOMAIN s}

\* ----------------------------------------------------------- environment
\* What an entry point reaches through its env argument: the three instance
\* storage slots, the event log and the remaining lifetime of the instance.
MkEnv(owner_slot, members_slot, addrs_slot, evs, t) ==
    [OWNER |-> owner_slot, MEMBERS |-> members_slot, ADDRS |-> addrs_slot,
     events |-> evs, ttl |-> t]

Env == MkEnv(OWNER, MEMBERS, ADDRS, events, ttl)

LoadMembers(env) == UnwrapOr(env.MEMBERS, MapNew)
LoadAddrs(env) == UnwrapOr(env.ADDRS, VecNew)

\* extend_ttl(threshold, extend_to): when fewer than threshold ledgers are
\* left, the lifetime becomes extend_to; otherwise it is left alone
ExtendTtl(t, threshold, extend_to) == IF t < threshold THEN extend_to ELSE t
\* variant: the lifetime is not renewed
extend_instance_ttl_noop(env) == env.ttl

extend_instance_ttl(env) ==
    ExtendTtl(env.ttl, INSTANCE_LIFETIME_THRESHOLD, INSTANCE_BUMP_AMOUNT)

Event(kind, data) == [topics |-> <<"family", kind>>, data |-> data]

\* ------------------------------------------------------ invocation results
\* The outcome of an invocation: the environment it leaves behind, the panic
\* message ("" when it returned) and the returned value (<<>> when it panicked).
Return(env, v) == [env |-> env, err |-> "", val |-> <<v>>]

\* a panic (or host trap) aborts the invocation: env is left as it was found
Panic(env, msg) == [env |-> env, err |-> msg, val |-> <<>>]

\* ------------------------------------------------------------ entry points
\* Each mutating entry point is given as the outcome of the code that follows
\* a successful owner.require_auth(); a failed one traps before that code runs.
\* variant: the ADDRS slot is not created
initialize_no_addrs(env, owner) ==
    IF env.OWNER # <<>> THEN Panic(env, AlreadyInitializedMsg)
    ELSE Return(MkEnv(<<owner>>, <<MapNew>>, env.ADDRS, env.events,
                      extend_instance_ttl(env)),
                TRUE)

\* variant: the already-initialized check is missing
initialize_overwrite(env, owner) ==
    Return(MkEnv(<<owner>>, <<MapNew>>, <<VecNew>>, env.events,
                 extend_instance_ttl(env)),
           TRUE)

initialize(env, owner) ==
    IF env.OWNER # <<>> THEN Panic(env, AlreadyInitializedMsg)
    ELSE Return(MkEnv(<<owner>>, <<MapNew>>, <<VecNew>>, env.events,
                      extend_instance_ttl(env)),
                TRUE)

\* variant: the limit is validated before the caller is compared to the owner
add_member_limit_first(env, owner, address, name, spending_limit, role) ==
    IF env.OWNER = <<>> THEN Panic(env, NotInitializedMsg)
    ELSE IF spending_limit <= 0 THEN Panic(env, NotPositiveMsg)
    ELSE IF env.OWNER[1] # owner THEN Panic(env, OnlyOwnerAddMsg)
    ELSE LET members == LoadMembers(env)
             addresses == LoadAddrs(env)
             is_update == MapContainsKey(members, address)
             member == FamilyMember(address, name, spending_limit, role)
             event == IF is_update THEN MemberUpdated ELSE MemberAdded
         IN  Return(MkEnv(env.OWNER,
                          <<MapSet(members, address, member)>>,
                          <<IF ~is_update THEN PushBack(addresses, address)
                                          ELSE addresses>>,
                          Append(env.events, Event(event, address)),
                          extend_instance_ttl(env)),
                    TRUE)

\* variant: the address is pushed to ADDRS on every call, new member or not
add_member_always_push(env, owner, address, name, spending_limit, role) ==
    IF env.OWNER = <<>> THEN Panic(env, NotInitializedMsg)
    ELSE IF env.OWNER[1] # owner THEN Panic(env, OnlyOwnerAddMsg)
    ELSE IF spending_limit <= 0 THEN Panic(env, NotPositiveMsg)
    ELSE LET members == LoadMembers(env)
             addresses == LoadAddrs(env)
             is_update == MapContainsKey(members, address)
             member == FamilyMember(address, name, spending_limit, role)
             event == IF is_update THEN MemberUpdated ELSE MemberAdded
         IN  Return(MkEnv(env.OWNER,
                          <<MapSet(members, address, member)>>,
                          <<PushBack(addresses, address)>>,
                          Append(env.events, Event(event, address)),
                          extend_instance_ttl(env)),
                    TRUE)

\* variant: the two member event kinds are exchanged
add_member_event_swapped(env, owner, address, name, spending_limit, role) ==
    IF env.OWNER = <<>> THEN Panic(env, NotInitializedMsg)
    ELSE IF env.OWNER[1] # owner THEN Panic(env, OnlyOwnerAddMsg)
    ELSE IF spending_limit <= 0 THEN Panic(env, NotPositiveMsg)
    ELSE LET members == LoadMembers(env)
             addresses == LoadAddrs(env)
             is_update == MapContainsKey(members, address)
             member == FamilyMember(address, name, spending_limit, role)
             event == IF is_update THEN MemberAdded ELSE MemberUpdated
         IN  Return(MkEnv(env.OWNER,
                          <<MapSet(members, address, member)>>,
                          <<IF ~is_update THEN PushBack(addresses, address)
                                          ELSE addresses>>,
                          Append(env.events, Event(event, address)),
                          extend_instance_ttl(env)),
                    TRUE)

\* variant: the member is looked for after it has been set, so it is always found
add_member_check_after_set(env, owner, address, name, spending_limit, role) ==
    IF env.OWNER = <<>> THEN Panic(env, NotInitializedMsg)
    ELSE IF env.OWNER[1] # owner THEN Panic(env, OnlyOwnerAddMsg)
    ELSE IF spending_limit <= 0 THEN Panic(env, NotPositiveMsg)
    ELSE LET members == LoadMembers(env)
             addresses == LoadAddrs(env)
             is_update == MapContainsKey(MapSet(members, address, address), address)
             member == FamilyMember(address, name, spending_limit, role)
             event == IF is_update THEN MemberUpdated ELSE MemberAdded
         IN  Return(MkEnv(env.OWNER,
                          <<MapSet(members, address, member)>>,
                          <<IF ~is_update THEN PushBack(addresses, address)
                                          ELSE addresses>>,
                          Append(env.events, Event(event, address)),
                          extend_instance_ttl(env)),
                    TRUE)

\* variant: only a negative limit is rejected
add_member_allows_zero(env, owner, address, name, spending_limit, role) ==
    IF env.OWNER = <<>> THEN Panic(env, NotInitializedMsg)
    ELSE IF env.OWNER[1] # owner THEN Panic(env, OnlyOwnerAddMsg)
    ELSE IF spending_limit < 0 THEN Panic(env, NotPositiveMsg)
    ELSE LET members == LoadMembers(env)
             addresses == LoadAddrs(env)
             is_update == MapContainsKey(members, address)
             member == FamilyMember(address, name, spending_limit, role)
             event == IF is_update THEN MemberUpdated ELSE MemberAdded
         IN  Return(MkEnv(env.OWNER,
                          <<MapSet(members, address, member)>>,
                          <<IF ~is_update THEN PushBack(addresses, address)
                                          ELSE addresses>>,
                          Append(env.events, Event(event, address)),
                          extend_instance_ttl(env)),
                    TRUE)

\* variant: the record carries the owner argument as its address
add_member_owner_as_address(env, owner, address, name, spending_limit, role) ==
    IF env.OWNER = <<>> THEN Panic(env, NotInitializedMsg)
    ELSE IF env.OWNER[1] # owner THEN Panic(env, OnlyOwnerAddMsg)
    ELSE IF spending_limit <= 0 THEN Panic(env, NotPositiveMsg)
    ELSE LET members == LoadMembers(env)
             addresses == LoadAddrs(env)
             is_update == MapContainsKey(members, address)
             member == FamilyMember(owner, name, spending_limit, role)
             event == IF is_update THEN MemberUpdated ELSE MemberAdded
         IN  Return(MkEnv(env.OWNER,
                          <<MapSet(members, address, member)>>,
                          <<IF ~is_update THEN PushBack(addresses, address)
                                          ELSE addresses>>,
                          Append(env.events, Event(event, address)),
                          extend_instance_ttl(env)),
                    TRUE)

\* variant: an updated member is moved to the end of ADDRS
add_member_move_to_end(env, owner, address, name, spending_limit, role) ==
    IF env.OWNER = <<>> THEN Panic(env, NotInitializedMsg)
    ELSE IF env.OWNER[1] # owner THEN Panic(env, OnlyOwnerAddMsg)
    ELSE IF spending_limit <= 0 THEN Panic(env, NotPositiveMsg)
    ELSE LET members == LoadMembers(env)
             addresses == LoadAddrs(env)
             is_update == MapContainsKey(members, address)
             member == FamilyMember(address, name, spending_limit, role)
             event == IF is_update THEN MemberUpdated ELSE MemberAdded
         IN  Return(MkEnv(env.OWNER,
                          <<MapSet(members, address, member)>>,
                          <<PushBack(SelectSeq(addresses,
                                              LAMBDA x : x # address),
                                     address)>>,
                          Append(env.events, Event(event, address)),
                          extend_instance_ttl(env)),
                    TRUE)

\* variant: every successful call publishes MemberAdded
add_member_always_added(env, owner, address, name, spending_limit, role) ==
    IF env.OWNER = <<>> THEN Panic(env, NotInitializedMsg)
    ELSE IF env.OWNER[1] # owner THEN Panic(env, OnlyOwnerAddMsg)
    ELSE IF spending_limit <= 0 THEN Panic(env, NotPositiveMsg)
    ELSE LET members == LoadMembers(env)
             addresses == LoadAddrs(env)
             is_update == MapContainsKey(members, address)
             member == FamilyMember(address, name, spending_limit, role)
             event == MemberAdded
         IN  Return(MkEnv(env.OWNER,
                          <<MapSet(members, address, member)>>,
                          <<IF ~is_update THEN PushBack(addresses, address)
                                          ELSE addresses>>,
                          Append(env.events, Event(event, address)),
                          extend_instance_ttl(env)),
                    TRUE)

add_member(env, owner, address, name, spending_limit, role) ==
    IF env.OWNER = <<>> THEN Panic(env, NotInitializedMsg)
    ELSE IF env.OWNER[1] # owner THEN Panic(env, OnlyOwnerAddMsg)
    ELSE IF spending_limit <= 0 THEN Panic(env, NotPositiveMsg)
    ELSE LET members == LoadMembers(env)
             addresses == LoadAddrs(env)
             is_update == MapContainsKey(members, address)
             member == FamilyMember(address, name, spending_limit, role)
             event == IF is_update THEN MemberUpdated ELSE MemberAdded
         IN  Return(MkEnv(env.OWNER,
                          <<MapSet(members, address, member)>>,
                          <<IF ~is_update THEN PushBack(addresses, address)
                                          ELSE addresses>>,
                          Append(env.events, Event(event, address)),
                          extend_instance_ttl(env)),
                    TRUE)

get_member(env, address) == MapGet(LoadMembers(env), address)

RECURSIVE CollectMembers(_, _, _, _)
CollectMembers(members, addresses, i, result) ==
    IF i > Len(addresses) THEN result
    ELSE CollectMembers(members, addresses, i + 1,
            IF MapGet(members, addresses[i]) # <<>>
            THEN PushBack(result, MapGet(members, addresses[i])[1])
            ELSE result)

\* variant: the members are enumerated in the key order of the map
RECURSIVE CollectByKey(_, _)
CollectByKey(members, result) ==
    IF DOMAIN members \subseteq {result[i].address : i \in DOMAIN result}
    THEN result
    ELSE LET rest == DOMAIN members \ {result[i].address : i \in DOMAIN result}
             k == CHOOSE x \in rest : \A y \in rest : x <= y
         IN  CollectByKey(members, PushBack(result, members[k]))

get_all_members_by_key(env) == CollectByKey(LoadMembers(env), VecNew)

get_all_members(env) ==
    CollectMembers(LoadMembers(env), LoadAddrs(env), 1, VecNew)

\* variant: a missing owner is not treated as an error
update_spending_limit_no_init(env, owner, address, new_limit) ==
    IF env.OWNER # <<>> /\ env.OWNER[1] # owner
    THEN Panic(env, OnlyOwnerUpdateMsg)
    ELSE IF new_limit <= 0 THEN Panic(env, NotPositiveMsg)
    ELSE LET members == LoadMembers(env)
             found == MapGet(members, address)
         IN  IF found = <<>>
             THEN Return(MkEnv(env.OWNER, env.MEMBERS, env.ADDRS, env.events,
                               extend_instance_ttl(env)),
                         FALSE)
             ELSE LET member == [found[1] EXCEPT !.spending_limit = new_limit]
                  IN  Return(MkEnv(env.OWNER,
                                   <<MapSet(members, address, member)>>,
                                   env.ADDRS,
                                   Append(env.events,
                                          Event(SpendingLimitUpdated, address)),
                                   extend_instance_ttl(env)),
                             TRUE)

\* variant: the member is looked up before the limit is validated
update_spending_limit_lookup_first(env, owner, address, new_limit) ==
    IF env.OWNER = <<>> THEN Panic(env, NotInitializedMsg)
    ELSE IF env.OWNER[1] # owner THEN Panic(env, OnlyOwnerUpdateMsg)
    ELSE LET members == LoadMembers(env)
             found == MapGet(members, address)
         IN  IF found = <<>>
             THEN Return(MkEnv(env.OWNER, env.MEMBERS, env.ADDRS, env.events,
                               extend_instance_ttl(env)),
                         FALSE)
             ELSE IF new_limit <= 0 THEN Panic(env, NotPositiveMsg)
             ELSE LET member == [found[1] EXCEPT !.spending_limit = new_limit]
                  IN  Return(MkEnv(env.OWNER,
                                   <<MapSet(members, address, member)>>,
                                   env.ADDRS,
                                   Append(env.events,
                                          Event(SpendingLimitUpdated, address)),
                                   extend_instance_ttl(env)),
                             TRUE)

\* variant: the event is published before the member is looked up
update_spending_limit_event_first(env, owner, address, new_limit) ==
    IF env.OWNER = <<>> THEN Panic(env, NotInitializedMsg)
    ELSE IF env.OWNER[1] # owner THEN Panic(env, OnlyOwnerUpdateMsg)
    ELSE IF new_limit <= 0 THEN Panic(env, NotPositiveMsg)
    ELSE LET members == LoadMembers(env)
             found == MapGet(members, address)
             published == Append(env.events, Event(SpendingLimitUpdated, address))
         IN  IF found = <<>>
             THEN Return(MkEnv(env.OWNER, env.MEMBERS, env.ADDRS, published,
                               extend_instance_ttl(env)),
                         FALSE)
             ELSE LET member == [found[1] EXCEPT !.spending_limit = new_limit]
                  IN  Return(MkEnv(env.OWNER,
                                   <<MapSet(members, address, member)>>,
                                   env.ADDRS,
                                   published,
                                   extend_instance_ttl(env)),
                             TRUE)

\* variant: the updated member is written into a new map instead of the loaded one
update_spending_limit_fresh_map(env, owner, address, new_limit) ==
    IF env.OWNER = <<>> THEN Panic(env, NotInitializedMsg)
    ELSE IF env.OWNER[1] # owner THEN Panic(env, OnlyOwnerUpdateMsg)
    ELSE IF new_limit <= 0 THEN Panic(env, NotPositiveMsg)
    ELSE LET members == LoadMembers(env)
             found == MapGet(members, address)
         IN  IF found = <<>>
             THEN Return(MkEnv(env.OWNER, env.MEMBERS, env.ADDRS, env.events,
                               extend_instance_ttl(env)),
                         FALSE)
             ELSE LET member == [found[1] EXCEPT !.spending_limit = new_limit]
                  IN  Return(MkEnv(env.OWNER,
                                   <<MapSet(MapNew, address, member)>>,
                                   env.ADDRS,
                                   Append(env.events,
                                          Event(SpendingLimitUpdated, address)),
                                   extend_instance_ttl(env)),
                             TRUE)

\* variant: a caller other than the owner gets false instead of a panic
update_spending_limit_false_for_other(env, owner, address, new_limit) ==
    IF env.OWNER = <<>> THEN Panic(env, NotInitializedMsg)
    ELSE IF env.OWNER[1] # owner THEN Return(env, FALSE)
    ELSE IF new_limit <= 0 THEN Panic(env, NotPositiveMsg)
    ELSE LET members == LoadMembers(env)
             found == MapGet(members, address)
         IN  IF found = <<>>
             THEN Return(MkEnv(env.OWNER, env.MEMBERS, env.ADDRS, env.events,
                               extend_instance_ttl(env)),
                         FALSE)
             ELSE LET member == [found[1] EXCEPT !.spending_limit = new_limit]
                  IN  Return(MkEnv(env.OWNER,
                                   <<MapSet(members, address, member)>>,
                                   env.ADDRS,
                                   Append(env.events,
                                          Event(SpendingLimitUpdated, address)),
                                   extend_instance_ttl(env)),
                             TRUE)

update_spending_limit(env, owner, address, new_limit) ==
    IF env.OWNER = <<>> THEN Panic(env, NotInitializedMsg)
    ELSE IF env.OWNER[1] # owner THEN Panic(env, OnlyOwnerUpdateMsg)
    ELSE IF new_limit <= 0 THEN Panic(env, NotPositiveMsg)
    ELSE LET members == LoadMembers(env)
             found == MapGet(members, address)
         IN  IF found = <<>>
             THEN Return(MkEnv(env.OWNER, env.MEMBERS, env.ADDRS, env.events,
                               extend_instance_ttl(env)),
                         FALSE)
             ELSE LET member == [found[1] EXCEPT !.spending_limit = new_limit]
                  IN  Return(MkEnv(env.OWNER,
                                   <<MapSet(members, address, member)>>,
                                   env.ADDRS,
                                   Append(env.events,
                                          Event(SpendingLimitUpdated, address)),
                                   extend_instance_ttl(env)),
                             TRUE)

\* variant: the bound is exclusive
check_spending_limit_strict(env, address, amount) ==
    LET found == MapGet(LoadMembers(env), address)
    IN  IF found # <<>> THEN amount < found[1].spending_limit ELSE FALSE

check_spending_limit(env, address, amount) ==
    LET found == MapGet(LoadMembers(env), address)
    IN  IF found # <<>> THEN amount <= found[1].spending_limit ELSE FALSE

\* ------------------------------------------------- calls in program order
\* The state-changing host calls of the mutating entry points, as values:
\* instance().extend_ttl, instance().set and events().publish.
ExtendTtlCall == [call |-> "extend_ttl"]
SetCall(key, value) == [call |-> "set", key |-> key, value |-> value]
PublishCall(kind, data) == [call |-> "publish", event |-> Event(kind, data)]

\* the environment after one such call
Perform(env, c) ==
    IF c.call = "extend_ttl"
    THEN [env EXCEPT !.ttl = extend_instance_ttl(env)]
    ELSE IF c.call = "set"
    THEN [env EXCEPT ![c.key] = <<c.value>>]
    ELSE [env EXCEPT !.events = Append(env.events, c.event)]

RECURSIVE PerformAll(_, _)
PerformAll(env, calls) ==
    IF Len(calls) = 0 THEN env
    ELSE PerformAll(Perform(env, Head(calls)), Tail(calls))

\* How an invocation ends, with the calls it had made by then, in order: a
\* return of v, or an abort with a panic message.  Nothing is rolled back here.
Returned(calls, v) == [calls |-> calls, err |-> "", val |-> <<v>>]
Aborted(calls, msg) == [calls |-> calls, err |-> msg, val |-> <<>>]

\* The mutating entry points statement by statement, from owner.require_auth()
\* on; authorized tells whether the owner argument authorized the invocation.
initialize_calls(env, authorized, owner) ==
    IF ~authorized THEN Aborted(<<>>, AuthError)
    ELSE LET existing == env.OWNER
         IN  IF existing # <<>> THEN Aborted(<<>>, AlreadyInitializedMsg)
             ELSE Returned(<<ExtendTtlCall,
                             SetCall("OWNER", owner),
                             SetCall("MEMBERS", MapNew),
                             SetCall("ADDRS", VecNew)>>,
                           TRUE)

\* variant: the lifetime is renewed before the limit is validated
add_member_calls_extend_first(env, authorized, owner, address, name, spending_limit, role) ==
    IF ~authorized THEN Aborted(<<>>, AuthError)
    ELSE IF env.OWNER = <<>> THEN Aborted(<<>>, NotInitializedMsg)
    ELSE IF env.OWNER[1] # owner THEN Aborted(<<>>, OnlyOwnerAddMsg)
    ELSE IF spending_limit <= 0
    THEN Aborted(<<ExtendTtlCall>>, NotPositiveMsg)
    ELSE LET members == LoadMembers(env)
             addresses == LoadAddrs(env)
             is_update == MapContainsKey(members, address)
             member == FamilyMember(address, name, spending_limit, role)
             event == IF is_update THEN MemberUpdated ELSE MemberAdded
         IN  Returned(<<ExtendTtlCall,
                        SetCall("MEMBERS", MapSet(members, address, member)),
                        SetCall("ADDRS",
                                IF ~is_update
                                THEN PushBack(addresses, address)
                                ELSE addresses),
                        PublishCall(event, address)>>,
                      TRUE)

add_member_calls(env, authorized, owner, address, name, spending_limit, role) ==
    IF ~authorized THEN Aborted(<<>>, AuthError)
    ELSE IF env.OWNER = <<>> THEN Aborted(<<>>, NotInitializedMsg)
    ELSE IF env.OWNER[1] # owner THEN Aborted(<<>>, OnlyOwnerAddMsg)
    ELSE IF spending_limit <= 0 THEN Aborted(<<>>, NotPositiveMsg)
    ELSE LET members == LoadMembers(env)
             addresses == LoadAddrs(env)
             is_update == MapContainsKey(members, address)
             member == FamilyMember(address, name, spending_limit, role)
             event == IF is_update THEN MemberUpdated ELSE MemberAdded
         IN  Returned(<<ExtendTtlCall,
                        SetCall("MEMBERS", MapSet(members, address, member)),
                        SetCall("ADDRS",
                                IF ~is_update
                                THEN PushBack(addresses, address)
                                ELSE addresses),
                        PublishCall(event, address)>>,
                      TRUE)

update_spending_limit_calls(env, authorized, owner, address, new_limit) ==
    IF ~authorized THEN Aborted(<<>>, AuthError)
    ELSE IF env.OWNER = <<>> THEN Aborted(<<>>, NotInitializedMsg)
    ELSE IF env.OWNER[1] # owner THEN Aborted(<<>>, OnlyOwnerUpdateMsg)
    ELSE IF new_limit <= 0 THEN Aborted(<<>>, NotPositiveMsg)
    ELSE LET members == LoadMembers(env)
             found == MapGet(members, address)
         IN  IF found = <<>> THEN Returned(<<ExtendTtlCall>>, FALSE)
             ELSE LET member == [found[1] EXCEPT !.spending_limit = new_limit]
                  IN  Returned(<<ExtendTtlCall,
                                 SetCall("MEMBERS",
                                         MapSet(members, address, member)),
                                 PublishCall(SpendingLimitUpdated, address)>>,
                               TRUE)

\* ---------------------------------------------------------------- actions
\* One invocation of entry point op with outcome r takes effect.  The event
\* log is capped at MaxEvents to keep the state space finite.
Invoke(op, r) ==
    /\ Len(r.env.events) <= MaxEvents
    /\ OWNER' = r.env.OWNER
    /\ MEMBERS' = r.env.MEMBERS
    /\ ADDRS' = r.env.ADDRS
    /\ events' = r.env.events
    /\ ttl' = r.env.ttl
    /\ last' = [op |-> op, err |-> r.err, val |-> r.val]

Initialize ==
    \E owner \in Addresses :
        /\ \/ Invoke("initialize", Panic(Env, AuthError))
           \/ Invoke("initialize", initialize(Env, owner))
        /\ UNCHANGED first_adds

AddMember ==
    \E owner \in Addresses :
        \/ /\ Invoke("add_member", Panic(Env, AuthError))
           /\ UNCHANGED first_adds
        \/ \E address \in Addresses, label \in Labels, spending_limit \in I128 :
            /\ Invoke("add_member",
                      add_member(Env, owner, address,
                                 label[1], spending_limit, label[2]))
            /\ first_adds' = IF last'.err = "" /\ address \notin Range(first_adds)
                             THEN Append(first_adds, address)
                             ELSE first_adds

UpdateSpendingLimit ==
    \E owner \in Addresses :
        /\ \/ Invoke("update_spending_limit", Panic(Env, AuthError))
           \/ \E address \in Addresses, new_limit \in I128 :
                Invoke("update_spending_limit",
                       update_spending_limit(Env, owner, address, new_limit))
        /\ UNCHANGED first_adds

\* variant: the read renews the instance lifetime
GetMember_extends ==
    \E address \in Addresses :
        /\ Invoke("get_member",
                  Return(MkEnv(OWNER, MEMBERS, ADDRS, events,
                               extend_instance_ttl(Env)),
                         get_member(Env, address)))
        /\ UNCHANGED first_adds

GetMember ==
    \E address \in Addresses :
        /\ Invoke("get_member", Return(Env, get_member(Env, address)))
        /\ UNCHANGED first_adds

\* variant: the read panics while no owner is stored
GetAllMembers_requires_init ==
    /\ Invoke("get_all_members",
              IF OWNER = <<>> THEN Panic(Env, NotInitializedMsg)
              ELSE Return(Env, get_all_members(Env)))
    /\ UNCHANGED first_adds

GetAllMembers ==
    /\ Invoke("get_all_members", Return(Env, get_all_members(Env)))
    /\ UNCHANGED first_adds

CheckSpendingLimit ==
    \E address \in Addresses, amount \in I128 :
        /\ Invoke("check_spending_limit",
                  Return(Env, check_spending_limit(Env, address, amount)))
        /\ UNCHANGED first_adds

\* the ledger advances between invocations and the remaining lifetime shrinks
LedgerStep == INSTANCE_BUMP_AMOUNT - INSTANCE_LIFETIME_THRESHOLD + 1
AdvanceLedger ==
    /\ ttl > LedgerStep
    /\ ttl' = ttl - LedgerStep
    /\ last' = [op |-> "advance_ledger", err |-> "", val |-> <<>>]
    /\ UNCHANGED <<OWNER, MEMBERS, ADDRS, events, first_adds>>

\* a newly deployed instance: nothing stored, lifetime below the threshold
Init ==
    /\ OWNER = <<>>
    /\ MEMBERS = <<>>
    /\ ADDRS = <<>>
    /\ events = <<>>
    /\ ttl = INSTANCE_LIFETIME_THRESHOLD - 1
    /\ last = [op |-> "deploy", err |-> "", val |-> <<>>]
    /\ first_adds = <<>>

Next ==
    \/ Initialize
    \/ AddMember
    \/ UpdateSpendingLimit
    \/ GetMember
    \/ GetAllMembers
    \/ CheckSpendingLimit
    \/ AdvanceLedger

Spec == Init /\ [][Next]_vars

\* ================================================================ claims
\* The error kind of a failure message (spec section 7).
ErrorKind(msg) ==
    CASE msg = AuthError -> "Unauthorized"
      [] msg = OnlyOwnerAddMsg -> "Unauthorized"
      [] msg = OnlyOwnerUpdateMsg -> "Unauthorized"
      [] msg = AlreadyInitializedMsg -> "AlreadyInitialized"
      [] msg = NotInitializedMsg -> "NotInitialized"
      [] msg = NotPositiveMsg -> "InvalidInput"
      [] OTHER -> "none"

\* outcome r leaves the owner, member map, identity sequence and event log alone
RegistryUnchanged(r) ==
    /\ r.env.OWNER = OWNER
    /\ r.env.MEMBERS = MEMBERS
    /\ r.env.ADDRS = ADDRS
    /\ r.env.events = events

Initialized == OWNER # <<>>
Present == DOMAIN LoadMembers(Env)

\* C1: on an initialized registry, add_member and update_spending_limit by a
\* verified caller other than the stored owner fail with Unauthorized for
\* every choice of the other arguments, and leave the owner, the member map,
\* the identity sequence and the event log unchanged.
C1_NonOwnerUnauthorized ==
    Initialized =>
        \A owner \in Addresses \ {OWNER[1]}, address \in Addresses,
           label \in Labels, limit \in I128 :
            LET a == add_member(Env, owner, address, label[1], limit, label[2])
                u == update_spending_limit(Env, owner, address, limit)
            IN  /\ ErrorKind(a.err) = "Unauthorized" /\ a.val = <<>>
                /\ RegistryUnchanged(a)
                /\ ErrorKind(u.err) = "Unauthorized" /\ u.val = <<>>
                /\ RegistryUnchanged(u)

C1_Witness ==
    /\ Initialized
    /\ Present \notin {{}, Addresses}
    /\ last.op = "update_spending_limit"
    /\ last.err = OnlyOwnerUpdateMsg

\* C2: initialize by a verified caller succeeds exactly when no owner is
\* stored: it then returns true, stores the given owner and creates an empty
\* member map and an empty identity sequence; with an owner stored it fails
\* with AlreadyInitialized and leaves owner, member map, identity sequence
\* and event log unchanged.  A step made by a successful initialize starts
\* with no owner stored.
C2_InitializeOutcome ==
    \A owner \in Addresses :
        LET r == initialize(Env, owner)
        IN  IF ~Initialized
            THEN /\ r.err = "" /\ r.val = <<TRUE>>
                 /\ r.env.OWNER = <<owner>>
                 /\ r.env.MEMBERS = <<MapNew>>
                 /\ r.env.ADDRS = <<VecNew>>
                 /\ r.env.events = events
            ELSE /\ ErrorKind(r.err) = "AlreadyInitialized" /\ r.val = <<>>
                 /\ RegistryUnchanged(r)

C2_InitializeStep ==
    (last'.op = "initialize" /\ last'.err = "") =>
        /\ ~Initialized
        /\ OWNER' # <<>> /\ MEMBERS' = <<MapNew>> /\ ADDRS' = <<VecNew>>
        /\ events' = events

\* C2 (as checked): the outcome of initialize is as above in every reachable
\* state, and every step made by a successful initialize starts uninitialized.
C2_InitializeOnce == []C2_InitializeOutcome /\ [][C2_InitializeStep]_vars

C2_Witness ==
    /\ last.op = "initialize"
    /\ last.err = AlreadyInitializedMsg
    /\ Present # {}

\* C3: once an owner is stored, no step changes or removes it.
C3_OwnerImmutable == [][Initialized => OWNER' = OWNER]_vars

C3_Witness ==
    /\ Initialized
    /\ Len(events) >= 2
    /\ last.op = "initialize"
    /\ last.err = AlreadyInitializedMsg

\* C4: while no owner is stored, add_member and update_spending_limit by a
\* verified caller fail with NotInitialized for every choice of arguments and
\* change nothing; no member is stored and no event has been published.
C4_UninitializedRejects ==
    ~Initialized =>
        /\ \A owner \in Addresses, address \in Addresses,
              label \in Labels, limit \in I128 :
            LET a == add_member(Env, owner, address, label[1], limit, label[2])
                u == update_spending_limit(Env, owner, address, limit)
            IN  /\ ErrorKind(a.err) = "NotInitialized" /\ a.val = <<>>
                /\ a.env = Env
                /\ ErrorKind(u.err) = "NotInitialized" /\ u.val = <<>>
                /\ u.env = Env
        /\ Present = {}
        /\ LoadAddrs(Env) = <<>>
        /\ events = <<>>

C4_Witness ==
    /\ ~Initialized
    /\ last.op = "add_member"
    /\ last.err = NotInitializedMsg

\* C5: on an initialized registry, add_member and update_spending_limit by
\* the owner with a limit <= 0 fail with InvalidInput whether or not the
\* target is present (update_spending_limit never returns false for such a
\* limit), and leave member map, identity sequence and event log unchanged.
C5_NonPositiveLimitRejected ==
    Initialized =>
        \A address \in Addresses, label \in Labels, limit \in I128 :
            limit <= 0 =>
                LET a == add_member(Env, OWNER[1], address,
                                    label[1], limit, label[2])
                    u == update_spending_limit(Env, OWNER[1], address, limit)
                IN  /\ ErrorKind(a.err) = "InvalidInput" /\ a.val = <<>>
                    /\ RegistryUnchanged(a)
                    /\ ErrorKind(u.err) = "InvalidInput" /\ u.val = <<>>
                    /\ RegistryUnchanged(u)

C5_Witness ==
    /\ Initialized
    /\ Present \notin {{}, Addresses}
    /\ last.op = "update_spending_limit"
    /\ last.err = NotPositiveMsg

\* the (name, role) pairs add_member is documented to accept
ValidLabels == {l \in Labels : l[1] # "" /\ l[2] # ""}

\* C6: add_member by the owner with an empty name or an empty role fails
\* with InvalidInput and stores nothing, so no member stored in the member
\* map has an empty name or an empty role.
C6_EmptyNameOrRoleRejected ==
    \A k \in Present :
        LoadMembers(Env)[k].name # "" /\ LoadMembers(Env)[k].role # ""

\* C7: after add_member by the owner with a positive limit and non-empty
\* name and role succeeds, get_member on the same address returns a record
\* with exactly the address, name, limit and role passed, whether the address
\* was new or already present.
C7_AddThenGet ==
    Initialized =>
        \A address \in Addresses, label \in ValidLabels, limit \in I128 :
            limit > 0 =>
                LET a == add_member(Env, OWNER[1], address,
                                    label[1], limit, label[2])
                IN  /\ a.err = "" /\ a.val = <<TRUE>>
                    /\ get_member(a.env, address) =
                         <<[address |-> address, name |-> label[1],
                            spending_limit |-> limit, role |-> label[2]]>>

C7_Witness ==
    /\ last.op = "add_member" /\ last.err = "" /\ last.val = <<TRUE>>
    /\ \E k \in Present :
        /\ events[Len(events)] = Event(MemberAdded, k)
        /\ LoadMembers(Env)[k].spending_limit = MaxLimit
        /\ LoadMembers(Env)[k].name # ""
        /\ LoadMembers(Env)[k].role # ""

\* C8: add_member by the owner on an address that is already present returns
\* true, replaces that member's name, limit and role, leaves the length of
\* get_all_members unchanged, leaves the address at its first-add position
\* and leaves every other member's record and position unchanged.
C8_UpsertInPlace ==
    Initialized =>
        \A address \in Present, label \in ValidLabels, limit \in I128 :
            limit > 0 =>
                LET a == add_member(Env, OWNER[1], address,
                                    label[1], limit, label[2])
                    old == get_all_members(Env)
                    new == get_all_members(a.env)
                IN  /\ a.err = "" /\ a.val = <<TRUE>>
                    /\ Len(new) = Len(old)
                    /\ \A i \in 1..Len(old) :
                        IF old[i].address = address
                        THEN /\ first_adds[i] = address
                             /\ new[i] = [address |-> address,
                                          name |-> label[1],
                                          spending_limit |-> limit,
                                          role |-> label[2]]
                        ELSE new[i] = old[i]
                    /\ \E i \in 1..Len(old) : old[i].address = address
                    /\ \A other \in Addresses \ {address} :
                        get_member(a.env, other) = get_member(Env, other)

C8_Witness ==
    /\ last.op = "add_member" /\ last.err = "" /\ last.val = <<TRUE>>
    /\ Len(get_all_members(Env)) = 2
    /\ events[Len(events)] = Event(MemberUpdated, first_adds[1])

\* C9: get_all_members returns exactly one record per address ever
\* successfully added, in the order of the first successful add_member of
\* each address, each record being what get_member returns for that address;
\* it is the empty sequence while nothing has been added.
C9_AllMembersInFirstAddOrder ==
    LET all == get_all_members(Env)
    IN  /\ Len(all) = Len(first_adds)
        /\ \A i \in 1..Len(first_adds) :
            get_member(Env, first_adds[i]) = <<all[i]>>
        /\ \A i, j \in 1..Len(all) :
            all[i].address = all[j].address => i = j
        /\ first_adds = <<>> => all = <<>>

C9_Witness ==
    /\ last.op = "get_all_members" /\ last.err = ""
    /\ Len(last.val[1]) = 2
    /\ last.val[1][1].address > last.val[1][2].address
    /\ \E i \in 1..Len(events) : events[i] = Event(MemberUpdated, first_adds[1])

\* C10: update_spending_limit by the owner with a positive limit on an
\* address that is not in the member map returns false, leaves the owner, the
\* member map and the identity sequence unchanged, does not create the
\* address and publishes no event.
C10_UpdateAbsentReturnsFalse ==
    Initialized =>
        \A address \in Addresses \ Present, limit \in I128 :
            limit > 0 =>
                LET u == update_spending_limit(Env, OWNER[1], address, limit)
                IN  /\ u.err = "" /\ u.val = <<FALSE>>
                    /\ RegistryUnchanged(u)
                    /\ get_member(u.env, address) = <<>>
                    /\ Cardinality(DOMAIN LoadMembers(u.env)) = Cardinality(Present)

C10_Witness ==
    /\ last.op = "update_spending_limit"
    /\ last.err = "" /\ last.val = <<FALSE>>
    /\ Present # {}

\* C11: update_spending_limit by the owner with a positive limit on a
\* present address returns true and changes only that member's
\* spending_limit: its address, name and role, every other member's record,
\* the identity sequence and the owner are unchanged.
C11_UpdateChangesOnlyLimit ==
    Initialized =>
        \A address \in Present, limit \in I128 :
            limit > 0 =>
                LET u == update_spending_limit(Env, OWNER[1], address, limit)
                    old == LoadMembers(Env)[address]
                IN  /\ u.err = "" /\ u.val = <<TRUE>>
                    /\ get_member(u.env, address) =
                         <<[address |-> old.address, name |-> old.name,
                            spending_limit |-> limit, role |-> old.role]>>
                    /\ \A other \in Addresses \ {address} :
                        get_member(u.env, other) = get_member(Env, other)
                    /\ u.env.ADDRS = ADDRS
                    /\ u.env.OWNER = OWNER

C11_Witness ==
    /\ last.op = "update_spending_limit"
    /\ last.err = "" /\ last.val = <<TRUE>>
    /\ Present = Addresses
    /\ \E k \in Present :
        /\ events[Len(events)] = Event(SpendingLimitUpdated, k)
        /\ LoadMembers(Env)[k].spending_limit = MaxLimit

\* C12: check_spending_limit(address, amount) is true exactly when the
\* address is in the member map and amount <= the limit set by the latest
\* successful add_member or update_spending_limit for it; the bound is
\* inclusive, also at the largest limit, and an absent address yields false.
C12_CheckAgainstLatestLimit ==
    /\ \A address \in Addresses \ Present, amount \in I128 :
        check_spending_limit(Env, address, amount) = FALSE
    /\ Initialized =>
        \A address \in Addresses, label \in Labels, limit \in I128 :
            limit > 0 =>
                LET a == add_member(Env, OWNER[1], address,
                                    label[1], limit, label[2])
                    u == update_spending_limit(Env, OWNER[1], address, limit)
                IN  \A target \in Addresses, amount \in I128 :
                    /\ check_spending_limit(a.env, target, amount) =
                         IF target = address THEN amount <= limit
                         ELSE check_spending_limit(Env, target, amount)
                    /\ check_spending_limit(u.env, target, amount) =
                         IF target = address /\ address \in Present
                         THEN amount <= limit
                         ELSE check_spending_limit(Env, target, amount)

C12_Witness ==
    /\ last.op = "check_spending_limit"
    /\ last.err = "" /\ last.val = <<TRUE>>
    /\ \E k \in Present :
        /\ LoadMembers(Env)[k].spending_limit = MaxLimit
        /\ \E i \in 1..Len(events) : events[i] = Event(SpendingLimitUpdated, k)

\* C13: a successful add_member appends exactly one event, MemberAdded when
\* the target was absent and MemberUpdated when it was present; an
\* update_spending_limit that returns true appends exactly one
\* SpendingLimitUpdated event; the payload is the target address; panicking
\* calls, update_spending_limit returning false, initialize and the read
\* entry points append nothing.
C13_EventOfOutcome ==
    \A owner \in Addresses, address \in Addresses,
       label \in Labels, limit \in I128 :
        LET i == initialize(Env, owner)
            a == add_member(Env, owner, address, label[1], limit, label[2])
            u == update_spending_limit(Env, owner, address, limit)
        IN  /\ i.env.events = events
            /\ a.env.events =
                 IF a.err = ""
                 THEN Append(events,
                        [topics |-> <<"family",
                                      IF address \in Present
                                      THEN "MemberUpdated" ELSE "MemberAdded">>,
                         data |-> address])
                 ELSE events
            /\ u.env.events =
                 IF u.val = <<TRUE>>
                 THEN Append(events,
                        [topics |-> <<"family", "SpendingLimitUpdated">>,
                         data |-> address])
                 ELSE events

C13_EventStep ==
    events' # events =>
        /\ last'.op \in {"add_member", "update_spending_limit"}
        /\ last'.err = "" /\ last'.val = <<TRUE>>
        /\ Len(events') = Len(events) + 1
        /\ SubSeq(events', 1, Len(events)) = events
        /\ events'[Len(events')].topics[2] =
             IF last'.op = "update_spending_limit" THEN "SpendingLimitUpdated"
             ELSE IF events'[Len(events')].data \in Present
                  THEN "MemberUpdated" ELSE "MemberAdded"

\* C13 (as checked): the events of every outcome are as above, and every
\* step that changes the event log is made by such a successful call.
C13_OneEventPerSuccess == []C13_EventOfOutcome /\ [][C13_EventStep]_vars

C13_Witness ==
    /\ Len(events) = 3
    /\ events[1].topics[2] = MemberAdded
    /\ events[2].topics[2] = MemberUpdated
    /\ events[3].topics[2] = SpendingLimitUpdated
    /\ last.op = "update_spending_limit" /\ last.val = <<FALSE>>

\* C14: get_member, get_all_members and check_spending_limit take no
\* authorization and change nothing: a step made by one of them leaves the
\* owner, the member map, the identity sequence, the storage lifetime and
\* the event log unchanged, and get_member returns the stored record of a
\* present address and absent for any other.
ReadOps == {"get_member", "get_all_members", "check_spending_limit"}

C14_ReadStep ==
    last'.op \in ReadOps =>
        /\ last'.err = ""
        /\ UNCHANGED <<OWNER, MEMBERS, ADDRS, ttl, events>>
        /\ last'.op = "get_member" =>
             \E address \in Addresses :
                last'.val = <<IF address \in Present
                              THEN <<LoadMembers(Env)[address]>> ELSE <<>> >>

C14_ReadsChangeNothing == [][C14_ReadStep]_vars

C14_Witness ==
    /\ last.op = "get_member"
    /\ last.val # << <<>> >>
    /\ ttl < INSTANCE_LIFETIME_THRESHOLD

\* C15: update_spending_limit returns false only for the stored owner, on an
\* initialized registry, with a positive limit and an absent target; a
\* failed verification, a caller other than the owner, an uninitialized
\* registry and a non-positive limit each end in their own error kind and
\* never in a returned false.
C15_FalseOnlyForAbsent ==
    /\ ErrorKind(Panic(Env, AuthError).err) = "Unauthorized"
    /\ Panic(Env, AuthError).val = <<>>
    /\ \A owner \in Addresses, address \in Addresses, limit \in I128 :
        LET u == update_spending_limit(Env, owner, address, limit)
        IN  /\ u.val = <<FALSE>> =>
                /\ Initialized /\ OWNER[1] = owner
                /\ limit > 0 /\ address \notin Present
            /\ ~Initialized =>
                ErrorKind(u.err) = "NotInitialized" /\ u.val = <<>>
            /\ (Initialized /\ OWNER[1] # owner) =>
                ErrorKind(u.err) = "Unauthorized" /\ u.val = <<>>
            /\ (Initialized /\ OWNER[1] = owner /\ limit <= 0) =>
                ErrorKind(u.err) = "InvalidInput" /\ u.val = <<>>

C15_Witness ==
    /\ last.op = "update_spending_limit"
    /\ last.err = "" /\ last.val = <<FALSE>>
    /\ Present = {}

\* C16: the identity sequence (ADDRS) and the member map (MEMBERS) are in
\* sync in every reachable state: the sequence has no duplicate and the set
\* of its elements is the key set of the map.
C16_AddrsInSyncWithMembers ==
    LET addresses == LoadAddrs(Env)
    IN  /\ \A i, j \in 1..Len(addresses) :
            addresses[i] = addresses[j] => i = j
        /\ {addresses[i] : i \in 1..Len(addresses)} = Present

C16_Witness ==
    /\ Len(LoadAddrs(Env)) = 2
    /\ Len(events) = 3
    /\ events[3].topics[2] = SpendingLimitUpdated
    /\ \E i \in 1..2 : events[i].topics[2] = MemberAdded

\* C17: every member stored in the member map has spending_limit > 0 in
\* every reachable state.
C17_StoredLimitPositive ==
    \A k \in Present : LoadMembers(Env)[k].spending_limit > 0

C17_Witness ==
    /\ Present = Addresses
    /\ \E k \in Present :
        /\ events[Len(events)] = Event(SpendingLimitUpdated, k)
        /\ LoadMembers(Env)[k].spending_limit = 1

\* C18: for every key k of the member map, the address field of the record
\* stored under k is k, in every reachable state.
C18_AddressFieldIsKey ==
    \A k \in Present : LoadMembers(Env)[k].address = k

C18_Witness ==
    /\ Present = Addresses
    /\ OWNER[1] \in Present
    /\ \E k \in Present : events[Len(events)] = Event(MemberUpdated, k)

\* C19: members are never deleted: no step removes a key from the member map
\* (so the number of members never decreases), and every step leaves the
\* identity sequence as it is or extends it at the end.
C19_Step ==
    LET members == UnwrapOr(MEMBERS, MapNew)
        members_after == UnwrapOr(MEMBERS', MapNew)
        addresses == UnwrapOr(ADDRS, VecNew)
        addresses_after == UnwrapOr(ADDRS', VecNew)
    IN  /\ DOMAIN members \subseteq DOMAIN members_after
        /\ Cardinality(DOMAIN members) <= Cardinality(DOMAIN members_after)
        /\ Len(addresses) <= Len(addresses_after)
        /\ SubSeq(addresses_after, 1, Len(addresses)) = addresses

C19_MembersNeverDeleted == [][C19_Step]_vars

C19_Witness ==
    /\ Len(LoadAddrs(Env)) = 2
    /\ LoadAddrs(Env)[1] > LoadAddrs(Env)[2]
    /\ last.op = "add_member" /\ last.err = ""
    /\ events[Len(events)] = Event(MemberUpdated, LoadAddrs(Env)[1])

\* C20: every successful initialize, every successful add_member and every
\* update_spending_limit that returns true renews the instance lifetime with
\* threshold 17280 and extend-to 518400, so that right after the call the
\* remaining lifetime is at least the threshold.
C20_Renewed(r) ==
    /\ r.env.ttl = IF ttl < 17280 THEN 518400 ELSE ttl
    /\ r.env.ttl >= 17280

C20_SuccessRenewsLifetime ==
    \A owner \in Addresses, address \in Addresses,
       label \in Labels, limit \in I128 :
        LET i == initialize(Env, owner)
            a == add_member(Env, owner, address, label[1], limit, label[2])
            u == update_spending_limit(Env, owner, address, limit)
        IN  /\ i.err = "" => C20_Renewed(i)
            /\ a.err = "" => C20_Renewed(a)
            /\ u.val = <<TRUE>> => C20_Renewed(u)

C20_Witness ==
    /\ last.op = "update_spending_limit"
    /\ last.err = "" /\ last.val = <<TRUE>>
    /\ ttl = INSTANCE_BUMP_AMOUNT
    /\ Len(events) = 2

\* the positions of the event log that hold a MemberAdded event
AddedAt == {i \in DOMAIN events : events[i].topics[2] = MemberAdded}

\* C21: in the event log, the first event carrying an address is
\* MemberAdded; exactly one MemberAdded event is published per address that
\* was ever added and none for any other; every MemberUpdated and
\* SpendingLimitUpdated event for an address comes after its MemberAdded
\* event; and the number of MemberAdded events equals the length of
\* get_all_members.
C21_EventLogOrder ==
    /\ \A i \in DOMAIN events :
        (\A j \in 1..(i - 1) : events[j].data # events[i].data) =>
            events[i].topics[2] = MemberAdded
    /\ \A k \in Addresses :
        Cardinality({i \in AddedAt : events[i].data = k}) =
            IF k \in Present THEN 1 ELSE 0
    /\ \A i \in DOMAIN events :
        events[i].topics[2] \in {MemberUpdated, SpendingLimitUpdated} =>
            \E j \in 1..(i - 1) :
                /\ events[j].topics[2] = MemberAdded
                /\ events[j].data = events[i].data
    /\ Cardinality(AddedAt) = Len(get_all_members(Env))

C21_Witness ==
    /\ Len(events) = 3
    /\ events[1].topics[2] = MemberAdded
    /\ events[2].topics[2] = SpendingLimitUpdated
    /\ events[3].topics[2] = MemberAdded
    /\ events[3].data # events[1].data
    /\ Len(get_all_members(Env)) = 2

\* the outcome of an invocation as the actions apply it
Outcome(authorized, r) == IF authorized THEN r ELSE Panic(Env, AuthError)

\* the calls made by a run are those of outcome r, and none when it aborted
C22_RunOf(run, r) ==
    /\ run.err = r.err /\ run.val = r.val
    /\ PerformAll(Env, run.calls) = r.env
    /\ run.err # "" => Len(run.calls) = 0

\* C22: in initialize, add_member and update_spending_limit every fatal
\* check (require_auth, already initialized / not initialized, owner
\* equality, limit positivity) comes before the first storage set, lifetime
\* renewal and event publication: an invocation that aborts has made none of
\* these calls, and an invocation that returns has made exactly the calls
\* whose effect is its outcome.
C22_ChecksBeforeEffects ==
    \A authorized \in BOOLEAN, owner \in Addresses, address \in Addresses,
       label \in Labels, limit \in I128 :
        /\ C22_RunOf(initialize_calls(Env, authorized, owner),
                     Outcome(authorized, initialize(Env, owner)))
        /\ C22_RunOf(add_member_calls(Env, authorized, owner, address,
                                      label[1], limit, label[2]),
                     Outcome(authorized,
                             add_member(Env, owner, address,
                                        label[1], limit, label[2])))
        /\ C22_RunOf(update_spending_limit_calls(Env, authorized, owner,
                                                 address, limit),
                     Outcome(authorized,
                             update_spending_limit(Env, owner, address, limit)))

C22_Witness ==
    /\ last.op = "add_member"
    /\ last.err = NotPositiveMsg
    /\ ttl < INSTANCE_LIFETIME_THRESHOLD
    /\ Present # {}

\* C23: while no owner has been stored, the read entry points do not fail:
\* get_member returns absent for every address, get_all_members returns the
\* empty sequence and check_spending_limit returns false for every address
\* and amount.
C23_ReadsOfUninitialized ==
    ~Initialized =>
        /\ \A address \in Addresses : get_member(Env, address) = <<>>
        /\ Len(get_all_members(Env)) = 0
        /\ \A address \in Addresses, amount \in I128 :
            check_spending_limit(Env, address, amount) = FALSE

C23_ReadStep ==
    (~Initialized /\ last'.op \in ReadOps) =>
        /\ last'.err = ""
        /\ Len(last'.val) = 1
        /\ last'.op = "get_member" => last'.val[1] = <<>>
        /\ last'.op = "get_all_members" => Len(last'.val[1]) = 0
        /\ last'.op = "check_spending_limit" => last'.val[1] = FALSE

\* C23 (as checked): the values of the reads are as above in every reachable
\* state without an owner, and every step made by a read from such a state
\* returns them without a panic.
C23_UninitializedReadsSucceed ==
    []C23_ReadsOfUninitialized /\ [][C23_ReadStep]_vars

C23_Witness ==
    /\ ~Initialized
    /\ last.op = "get_all_members"
    /\ last.err = ""
    /\ Len(last.val) = 1
    /\ Len(last.val[1]) = 0

====
